---- MODULE Spec2Model ----
(***************************************************************************)
(* Voice-activity-gated recorder of src/project1/main.py.                  *)
(*                                                                         *)
(* Two activities share one channel (audio_queue): the capture callback    *)
(* (producer) and main() (consumer).  main() is modelled statement by      *)
(* statement through pc; the callback is one atomic put.                   *)
(*                                                                         *)
(* Decibel values are fixed-point integers, Scale units per dB; a chunk is *)
(* abstracted to its serial number and its decibel energy, and stands for  *)
(* ChunkBytes bytes of payload.  Byte strings (buffer, sink) are sequences *)
(* of segments [id, off, len]: len bytes of chunk id starting at off.      *)
(***************************************************************************)
EXTENDS Integers, Sequences, FiniteSets, TLC

VARIABLES
    pc,           \* position of main()
    exc,          \* exception being propagated out of main(): "none" or its name
    exc_at,       \* pc at which exc was raised ("none" when exc = "none")
    audio_queue,  \* Queue[tuple[bytes,int]]: sequence of chunks
    produced,     \* number of entries the callback has put
    out_file,     \* "unopened" | "open" | "closed"
    py_audio,     \* "unopened" | "open" | "closed"
    stream,       \* "unopened" | "open" | "closed"
    header,       \* TRUE once the sink's header parameters are set
    frames,       \* bytes handed to out_file.writeframes, in order
    buffer,       \* main()'s local buffer
    data,         \* chunk returned by the last audio_queue.get, as a sequence
    is_speech,    \* last result of classify_sample
    status,       \* last result of recording_status ("none" before the first)
    level, background, foreground, speaking,   \* closure state of classify_frame
    off_time, started,                         \* closure state of recording_status
    wu_i,         \* loop counter of discard_first_at_least
    wu_qsize,     \* value qsize() returned in discard_first_at_least (-1 before)
    script,       \* the environment: the two energies the driver delivers
    audio_array,  \* the samples of the chunk whose energy is measured
    energy,       \* last result of sample_decibel_energy
    cb_exc,       \* exception raised inside stream_callback: "none" or its name
    hist          \* history record (observation only, never read by the program)

vars == <<pc, exc, exc_at, audio_queue, produced, out_file, py_audio, stream,
          header, frames, buffer, data, is_speech, status, level, background,
          foreground, speaking, off_time, started, wu_i, wu_qsize, script,
          audio_array, energy, cb_exc, hist>>

----------------------------------------------------------------------------
(* Bounds of the model *)

\* fixed-point resolution: units per decibel
Scale == 1000
\* the callback stops after MaxChunks entries
MaxChunks == 116
\* the callback finds room only while fewer than MaxQueue entries wait (processing loop)
MaxQueue == 2
\* the same, before the warm-up clear
MaxBacklog == 6
\* the first MaxVar chunks after the N_DISCARD-th may be loud or quiet; the rest are quiet
MaxVar == 3
\* recording_status alone: at most MaxRun non-speech decisions in a row
MaxRun == 103
\* the synthetic sequence: at most MaxSynthChunks chunks
MaxSynthChunks == 320

\* the session that keeps being delivered: the callback is at most this far ahead
MaxLiveAhead == 1

\* most samples in a chunk whose energy is measured
MaxSamples == 3

\* chunks given to the classifier on its own
MaxClassifyChunks == 6

(* Program constants *)
SIZEOF_FRAME == 2
SAMPLING_RATE == 16000
CHUNK_MS == 20
N_FRAME_PER_CHUNK == (SAMPLING_RATE * CHUNK_MS) \div 1000
MAX_PAUSE_MS == 2000
N_DISCARD == 5
STARTING_THRESHOLD_DB == 15
CONTINUING_THRESHOLD_DB == 2
STOPPING_THRESHOLD_DB == 0 - 20
\* 0.05 and 0.8, in hundredths
WEAK_ADJUSTMENT == 5
STRONG_ADJUSTMENT == 80
\* 1.2, in tenths
FORGET_FACTOR == 12

\* variant: the size is counted in frames, not bytes
buffer_size_in_frames == (SAMPLING_RATE * MAX_PAUSE_MS) \div 1000

buffer_size == (SAMPLING_RATE * MAX_PAUSE_MS * SIZEOF_FRAME) \div 1000
ChunkBytes == N_FRAME_PER_CHUNK * SIZEOF_FRAME

\* Python's None for level / background: a value no energy takes
None == 0 - 1000 * Scale

QuietDb == 30 * Scale
LoudDb == 70 * Scale

----------------------------------------------------------------------------
(* Byte strings *)

\* the element of a set of one element; in The({e(x) : x \in {v}}) the value v of
\* an expression of the source is evaluated once and named x
The(S) == CHOOSE r \in S : TRUE

\* bytes in segments lo .. hi of b
RECURSIVE SumLen(_, _, _)
SumLen(b, lo, hi) ==
    IF lo > hi THEN 0
    ELSE IF lo = hi THEN b[lo].len
    ELSE The({SumLen(b, lo, mid) + SumLen(b, mid + 1, hi)
              : mid \in {(lo + hi) \div 2}})

\* len(b)
BytesLen(b) == SumLen(b, 1, Len(b))

\* the number of leading segments of b that lie wholly within its first k bytes,
\* known to be in lo .. hi
RECURSIVE CutIn(_, _, _, _)
CutIn(b, k, lo, hi) ==
    IF lo >= hi THEN lo
    ELSE The({IF SumLen(b, 1, mid) <= k THEN CutIn(b, k, mid, hi)
              ELSE CutIn(b, k, lo, mid - 1)
              : mid \in {(lo + hi + 1) \div 2}})

\* the segments of b[:k], cut after i whole segments and rem further bytes
TakeAt(b, i, rem) ==
    SubSeq(b, 1, i) \o
    (IF i < Len(b) /\ rem > 0
     THEN <<[id |-> b[i + 1].id, off |-> b[i + 1].off, len |-> rem]>>
     ELSE <<>>)

\* the segments of b[k:], cut after i whole segments and rem further bytes
DropAt(b, i, rem) ==
    IF i = Len(b) THEN <<>>
    ELSE <<[id |-> b[i + 1].id, off |-> b[i + 1].off + rem,
            len |-> b[i + 1].len - rem]>> \o SubSeq(b, i + 2, Len(b))

\* b[:k] for 0 <= k
TakeBytes(b, k) ==
    IF k <= 0 \/ b = <<>> THEN <<>>
    ELSE The({TakeAt(b, i, k - SumLen(b, 1, i))
              : i \in {CutIn(b, k, 0, Len(b))}})

\* b[k:] for 0 <= k
DropBytes(b, k) ==
    IF k <= 0 \/ b = <<>> THEN b
    ELSE The({DropAt(b, i, k - SumLen(b, 1, i))
              : i \in {CutIn(b, k, 0, Len(b))}})

Max(a, b) == IF a >= b THEN a ELSE b

\* b[:-n]   (Python: -0 is 0, so b[:-0] is empty)
SliceButLast(b, n) == The({TakeBytes(b, Max(0, l - n))
                           : l \in {BytesLen(b)}})

\* b[-n:]   (Python: b[-0:] is all of b)
SliceLast(b, n) ==
    IF n = 0 THEN b ELSE The({DropBytes(b, Max(0, l - n))
                              : l \in {BytesLen(b)}})

\* x followed by y, both non-empty: the last segment of x and the first of y are
\* one segment when they are adjacent bytes of one chunk
JoinAt(x, y) ==
    LET l == x[Len(x)]
        r == y[1]
    IN  IF l.id = r.id /\ l.off + l.len = r.off
        THEN SubSeq(x, 1, Len(x) - 1)
             \o <<[id |-> l.id, off |-> l.off, len |-> l.len + r.len]>>
             \o Tail(y)
        ELSE x \o y

\* segments lo .. hi of b, adjacent segments of one chunk made one
RECURSIVE NormalIn(_, _, _)
NormalIn(b, lo, hi) ==
    IF lo > hi THEN <<>>
    ELSE IF lo = hi THEN <<b[lo]>>
    ELSE The({JoinAt(x, y)
              : x \in {NormalIn(b, lo, (lo + hi) \div 2)},
                y \in {NormalIn(b, (lo + hi) \div 2 + 1, hi)}})

\* adjacent segments of one chunk are one run of bytes
Normal(b) == The({NormalIn(c, 1, Len(c)) : c \in {b}})

\* the payload bytes of a chunk
PayloadOf(c) == <<[id |-> c.id, off |-> 0, len |-> ChunkBytes]>>

----------------------------------------------------------------------------
(* recording_status: one call of the closure, on its state (off, st) *)

\* variant: "started = True" is missing
recording_status_forgets_started(sp, off, st) ==
    IF ~st
    THEN IF sp
         THEN [status |-> "GOING", off_time |-> off, started |-> st]
         ELSE [status |-> "PENDING", off_time |-> off, started |-> st]
    ELSE LET o == IF sp THEN 0 ELSE off + CHUNK_MS
         IN  [status |-> IF o > MAX_PAUSE_MS THEN "STOPPING" ELSE "GOING",
              off_time |-> o, started |-> st]

\* variant: a speech decision does not reset off_time
recording_status_no_reset(sp, off, st) ==
    IF ~st
    THEN IF sp
         THEN [status |-> "GOING", off_time |-> off, started |-> TRUE]
         ELSE [status |-> "PENDING", off_time |-> off, started |-> st]
    ELSE LET o == IF sp THEN off ELSE off + CHUNK_MS
         IN  [status |-> IF o > MAX_PAUSE_MS THEN "STOPPING" ELSE "GOING",
              off_time |-> o, started |-> st]

\* variant: "off_time >= MAX_PAUSE_MS"
recording_status_ge(sp, off, st) ==
    IF ~st
    THEN IF sp
         THEN [status |-> "GOING", off_time |-> off, started |-> TRUE]
         ELSE [status |-> "PENDING", off_time |-> off, started |-> st]
    ELSE LET o == IF sp THEN 0 ELSE off + CHUNK_MS
         IN  [status |-> IF o >= MAX_PAUSE_MS THEN "STOPPING" ELSE "GOING",
              off_time |-> o, started |-> st]

\* variant: off_time also accumulates before the recording has started
recording_status_counts_lead(sp, off, st) ==
    IF ~st
    THEN IF sp
         THEN [status |-> "GOING", off_time |-> off, started |-> TRUE]
         ELSE [status |-> "PENDING", off_time |-> off + CHUNK_MS, started |-> st]
    ELSE LET o == IF sp THEN 0 ELSE off + CHUNK_MS
         IN  [status |-> IF o > MAX_PAUSE_MS THEN "STOPPING" ELSE "GOING",
              off_time |-> o, started |-> st]

\* variant: "off_time = CHUNK_MS" for "off_time += CHUNK_MS"
recording_status_no_accumulate(sp, off, st) ==
    IF ~st
    THEN IF sp
         THEN [status |-> "GOING", off_time |-> off, started |-> TRUE]
         ELSE [status |-> "PENDING", off_time |-> off, started |-> st]
    ELSE LET o == IF sp THEN 0 ELSE CHUNK_MS
         IN  [status |-> IF o > MAX_PAUSE_MS THEN "STOPPING" ELSE "GOING",
              off_time |-> o, started |-> st]

\* variant: "off_time += 2 * CHUNK_MS"
recording_status_double_step(sp, off, st) ==
    IF ~st
    THEN IF sp
         THEN [status |-> "GOING", off_time |-> off, started |-> TRUE]
         ELSE [status |-> "PENDING", off_time |-> off, started |-> st]
    ELSE LET o == IF sp THEN 0 ELSE off + 2 * CHUNK_MS
         IN  [status |-> IF o > MAX_PAUSE_MS THEN "STOPPING" ELSE "GOING",
              off_time |-> o, started |-> st]

recording_status(sp, off, st) ==
    IF ~st
    THEN IF sp
         THEN [status |-> "GOING", off_time |-> off, started |-> TRUE]
         ELSE [status |-> "PENDING", off_time |-> off, started |-> st]
    ELSE LET o == IF sp THEN 0 ELSE off + CHUNK_MS
         IN  [status |-> IF o > MAX_PAUSE_MS THEN "STOPPING" ELSE "GOING",
              off_time |-> o, started |-> st]

(* adjust_conditionally_on_change, adjustments in hundredths *)
adjust_conditionally_on_change(original, updated, adjustment_if_inc, adjustment_if_dec) ==
    LET diff == updated - original
    IN  (((IF diff > 0 THEN adjustment_if_inc ELSE adjustment_if_dec) * diff) \div 100)
        + original

\* variant: background starts at 0.0, like foreground
classify_frame_bg_zero(current, lv, bg, fg, sp) ==
    LET lv0 == IF lv = None THEN current ELSE lv
        bg0 == IF bg = None THEN 0 ELSE bg
        lv1 == ((lv0 * FORGET_FACTOR) + current * 10) \div (FORGET_FACTOR + 10)
        stop == sp /\ (lv1 - bg0 < CONTINUING_THRESHOLD_DB * Scale
                       \/ lv1 - fg < STOPPING_THRESHOLD_DB * Scale)
        sp1 == sp /\ ~stop
        bg1 == IF stop THEN (IF bg0 < lv1 THEN bg0 ELSE lv1) ELSE bg0
        fg1 == IF sp /\ ~stop
               THEN adjust_conditionally_on_change(fg, lv1, STRONG_ADJUSTMENT,
                                                   WEAK_ADJUSTMENT)
               ELSE fg
        start == ~sp1 /\ lv1 - bg1 >= STARTING_THRESHOLD_DB * Scale
        bg2 == IF ~sp1 /\ ~start
               THEN adjust_conditionally_on_change(bg1, lv1, WEAK_ADJUSTMENT,
                                                   STRONG_ADJUSTMENT)
               ELSE bg1
    IN  [level |-> lv1, background |-> bg2,
         foreground |-> IF start THEN lv1 ELSE fg1,
         speaking |-> sp1 \/ start]

\* variant: "else:" in place of "if not speaking:"
classify_frame_else(current, lv, bg, fg, sp) ==
    LET lv0 == IF lv = None THEN current ELSE lv
        bg0 == IF bg = None THEN current ELSE bg
        lv1 == ((lv0 * FORGET_FACTOR) + current * 10) \div (FORGET_FACTOR + 10)
        stop == sp /\ (lv1 - bg0 < CONTINUING_THRESHOLD_DB * Scale
                       \/ lv1 - fg < STOPPING_THRESHOLD_DB * Scale)
        sp1 == sp /\ ~stop
        bg1 == IF stop THEN (IF bg0 < lv1 THEN bg0 ELSE lv1) ELSE bg0
        fg1 == IF sp /\ ~stop
               THEN adjust_conditionally_on_change(fg, lv1, STRONG_ADJUSTMENT,
                                                   WEAK_ADJUSTMENT)
               ELSE fg
        start == ~sp /\ lv1 - bg1 >= STARTING_THRESHOLD_DB * Scale
        bg2 == IF ~sp /\ ~start
               THEN adjust_conditionally_on_change(bg1, lv1, WEAK_ADJUSTMENT,
                                                   STRONG_ADJUSTMENT)
               ELSE bg1
    IN  [level |-> lv1, background |-> bg2,
         foreground |-> IF start THEN lv1 ELSE fg1,
         speaking |-> sp1 \/ start]

\* variant: a stop leaves background as it was
classify_frame_bg_keeps(current, lv, bg, fg, sp) ==
    LET lv0 == IF lv = None THEN current ELSE lv
        bg0 == IF bg = None THEN current ELSE bg
        lv1 == ((lv0 * FORGET_FACTOR) + current * 10) \div (FORGET_FACTOR + 10)
        stop == sp /\ (lv1 - bg0 < CONTINUING_THRESHOLD_DB * Scale
                       \/ lv1 - fg < STOPPING_THRESHOLD_DB * Scale)
        sp1 == sp /\ ~stop
        bg1 == bg0
        fg1 == IF sp /\ ~stop
               THEN adjust_conditionally_on_change(fg, lv1, STRONG_ADJUSTMENT,
                                                   WEAK_ADJUSTMENT)
               ELSE fg
        start == ~sp1 /\ lv1 - bg1 >= STARTING_THRESHOLD_DB * Scale
        bg2 == IF ~sp1 /\ ~start
               THEN adjust_conditionally_on_change(bg1, lv1, WEAK_ADJUSTMENT,
                                                   STRONG_ADJUSTMENT)
               ELSE bg1
    IN  [level |-> lv1, background |-> bg2,
         foreground |-> IF start THEN lv1 ELSE fg1,
         speaking |-> sp1 \/ start]

\* variant: a start sets foreground to the chunk's own energy
classify_frame_fg_current(current, lv, bg, fg, sp) ==
    LET lv0 == IF lv = None THEN current ELSE lv
        bg0 == IF bg = None THEN current ELSE bg
        lv1 == ((lv0 * FORGET_FACTOR) + current * 10) \div (FORGET_FACTOR + 10)
        stop == sp /\ (lv1 - bg0 < CONTINUING_THRESHOLD_DB * Scale
                       \/ lv1 - fg < STOPPING_THRESHOLD_DB * Scale)
        sp1 == sp /\ ~stop
        bg1 == IF stop THEN (IF bg0 < lv1 THEN bg0 ELSE lv1) ELSE bg0
        fg1 == IF sp /\ ~stop
               THEN adjust_conditionally_on_change(fg, lv1, STRONG_ADJUSTMENT,
                                                   WEAK_ADJUSTMENT)
               ELSE fg
        start == ~sp1 /\ lv1 - bg1 >= STARTING_THRESHOLD_DB * Scale
        bg2 == IF ~sp1 /\ ~start
               THEN adjust_conditionally_on_change(bg1, lv1, WEAK_ADJUSTMENT,
                                                   STRONG_ADJUSTMENT)
               ELSE bg1
    IN  [level |-> lv1, background |-> bg2,
         foreground |-> IF start THEN current ELSE fg1,
         speaking |-> sp1 \/ start]

\* variant: "level = (level * FORGET_FACTOR) + current"
classify_frame_no_divide(current, lv, bg, fg, sp) ==
    LET lv0 == IF lv = None THEN current ELSE lv
        bg0 == IF bg = None THEN current ELSE bg
        lv1 == ((lv0 * FORGET_FACTOR) + current * 10) \div 10
        stop == sp /\ (lv1 - bg0 < CONTINUING_THRESHOLD_DB * Scale
                       \/ lv1 - fg < STOPPING_THRESHOLD_DB * Scale)
        sp1 == sp /\ ~stop
        bg1 == IF stop THEN (IF bg0 < lv1 THEN bg0 ELSE lv1) ELSE bg0
        fg1 == IF sp /\ ~stop
               THEN adjust_conditionally_on_change(fg, lv1, STRONG_ADJUSTMENT,
                                                   WEAK_ADJUSTMENT)
               ELSE fg
        start == ~sp1 /\ lv1 - bg1 >= STARTING_THRESHOLD_DB * Scale
        bg2 == IF ~sp1 /\ ~start
               THEN adjust_conditionally_on_change(bg1, lv1, WEAK_ADJUSTMENT,
                                                   STRONG_ADJUSTMENT)
               ELSE bg1
    IN  [level |-> lv1, background |-> bg2,
         foreground |-> IF start THEN lv1 ELSE fg1,
         speaking |-> sp1 \/ start]

(* classify_frame: one call of the closure on state (lv, bg, fg, sp), given
   current, the decibel energy of the chunk *)
classify_frame(current, lv, bg, fg, sp) ==
    LET lv0 == IF lv = None THEN current ELSE lv
        bg0 == IF bg = None THEN current ELSE bg
        lv1 == ((lv0 * FORGET_FACTOR) + current * 10) \div (FORGET_FACTOR + 10)
        stop == sp /\ (lv1 - bg0 < CONTINUING_THRESHOLD_DB * Scale
                       \/ lv1 - fg < STOPPING_THRESHOLD_DB * Scale)
        \* after the "if speaking:" block
        sp1 == sp /\ ~stop
        bg1 == IF stop THEN (IF bg0 < lv1 THEN bg0 ELSE lv1) ELSE bg0
        fg1 == IF sp /\ ~stop
               THEN adjust_conditionally_on_change(fg, lv1, STRONG_ADJUSTMENT,
                                                   WEAK_ADJUSTMENT)
               ELSE fg
        \* the "if not speaking:" block
        start == ~sp1 /\ lv1 - bg1 >= STARTING_THRESHOLD_DB * Scale
        bg2 == IF ~sp1 /\ ~start
               THEN adjust_conditionally_on_change(bg1, lv1, WEAK_ADJUSTMENT,
                                                   STRONG_ADJUSTMENT)
               ELSE bg1
    IN  [level |-> lv1, background |-> bg2,
         foreground |-> IF start THEN lv1 ELSE fg1,
         speaking |-> sp1 \/ start]

----------------------------------------------------------------------------
\* The segment of main() that appends an accepted chunk and trims the buffer
\* (lines 66-69): the bytes written and the buffer kept.
\* variant: the flush writes the whole buffer
AppendAndFlush_writes_all(buf, d) ==
    The({IF BytesLen(b) > buffer_size
         THEN [wrote |-> TRUE, out |-> b, buffer |-> SliceLast(b, buffer_size)]
         ELSE [wrote |-> FALSE, out |-> <<>>, buffer |-> b]
         : b \in {buf \o d}})

\* variant: "buffer = buffer[-buffer_size:]" is missing
AppendAndFlush_keeps_all(buf, d) ==
    The({IF BytesLen(b) > buffer_size
         THEN [wrote |-> TRUE, out |-> SliceButLast(b, buffer_size), buffer |-> b]
         ELSE [wrote |-> FALSE, out |-> <<>>, buffer |-> b]
         : b \in {buf \o d}})

\* variant: "buffer = data + buffer"
AppendAndFlush_prepends(buf, d) ==
    The({IF BytesLen(b) > buffer_size
         THEN [wrote |-> TRUE, out |-> SliceButLast(b, buffer_size),
               buffer |-> SliceLast(b, buffer_size)]
         ELSE [wrote |-> FALSE, out |-> <<>>, buffer |-> b]
         : b \in {d \o buf}})

AppendAndFlush(buf, d) ==
    The({IF BytesLen(b) > buffer_size
         THEN [wrote |-> TRUE, out |-> SliceButLast(b, buffer_size),
        buffer |-> SliceLast(b, buffer_size)]
         ELSE [wrote |-> FALSE, out |-> <<>>, buffer |-> b]
         : b \in {buf \o d}})

\* variant: the newest entry is returned
QueueGet_lifo(q) == [item |-> q[Len(q)], rest |-> SubSeq(q, 1, Len(q) - 1)]

\* Queue.get on a non-empty queue: the entry returned and the queue left
QueueGet(q) == [item |-> Head(q), rest |-> Tail(q)]

\* Queue.put
QueuePut(q, e) == Append(q, e)

\* the entry (None, n_frame): a callback that carries no data
NoData == [id |-> 0, db |-> None]

\* variant: the assert is missing
stream_callback_no_assert(q, in_data) ==
    [queue |-> QueuePut(q, in_data), raised |-> "none"]

\* stream_callback(in_data, n_frame, time_info, status) on the queue q: the queue it
\* leaves and the exception it raises
stream_callback(q, in_data) ==
    IF in_data = NoData
    THEN [queue |-> q, raised |-> "AssertionError"]
    ELSE [queue |-> QueuePut(q, in_data), raised |-> "none"]

\* variant: only the first n_discard entries are dropped
QueueClear_first_n(q) == SubSeq(q, N_DISCARD + 1, Len(q))

\* with audio_queue.mutex: audio_queue.queue.clear()
QueueClear(q) == <<>>

\* variant: the entries are never retrieved one by one
NeedsDrain_never(n) == FALSE

\* discard_first_at_least: "if audio_queue.qsize() < n_discard"
NeedsDrain(qsize) == qsize < N_DISCARD

\* variant: the loop runs once more
DrainDone_once_more(i) == i > N_DISCARD

\* discard_first_at_least: "for _ in range(n_discard)" is over after i retrievals
DrainDone(i) == i >= N_DISCARD

\* variant: the capture device is not a context of the with statement
Unwind_skips_pa == IF out_file = "open" THEN "exit_wave" ELSE "failed"

\* variant: the sink is released only through the capture device's exit
Unwind_leaks_file == IF py_audio = "open" THEN "exit_pa" ELSE "failed"

\* where an exception raised in the body of the with statement goes first
Unwind == IF py_audio = "open" THEN "exit_pa"
          ELSE IF out_file = "open" THEN "exit_wave" ELSE "failed"

----------------------------------------------------------------------------
(* Initial state: main() entered, nothing opened, closures not yet called *)

InitProgram(p) ==
    /\ pc = p
    /\ exc = "none"
    /\ exc_at = "none"
    /\ audio_queue = <<>>
    /\ produced = 0
    /\ out_file = "unopened"
    /\ py_audio = "unopened"
    /\ stream = "unopened"
    /\ header = FALSE
    /\ frames = <<>>
    /\ buffer = <<>>
    /\ data = <<>>
    /\ is_speech = FALSE
    /\ status = "none"
    /\ level = None
    /\ background = None
    /\ foreground = 0
    /\ speaking = FALSE
    /\ off_time = 0
    /\ started = FALSE
    /\ wu_i = 0
    /\ wu_qsize = 0 - 1
    /\ cb_exc = "none"

\* nothing observed yet
InitHist ==
    [arr0 |-> <<>>, nulls |-> 0, null_kept |-> TRUE, observed |-> <<>>, classified |-> <<>>, appended |-> 0,
     run |-> 0, spoken |-> FALSE, onset_at |-> 0, last_speech |-> 0,
     wu_got |-> 0, wu_cleared |-> 0, wu_left |-> 0, wu_done |-> FALSE,
     wu_floor |-> 0, gets |-> 0, timeouts |-> 0,
     prev |-> [speaking |-> FALSE, level |-> None, background |-> None,
               foreground |-> 0],
     opens |-> [file |-> 0, pa |-> 0, stream |-> 0],
     closes |-> [file |-> 0, pa |-> 0, stream |-> 0]]

InitAt(p) ==
    /\ InitProgram(p)
    /\ audio_array = <<>>
    /\ energy = None
    /\ hist = InitHist

Init ==
    /\ InitAt("open_wave")
    /\ script = [low |-> QuietDb, high |-> LoudDb]

\* what an observer of the loop notes when chunk number n, decided sp, got status st
Observe(h, sp, st) ==
    LET n == Len(h.observed) + 1
    IN  [h EXCEPT !.observed = Append(@, st),
                  !.appended = IF st = "GOING" THEN @ + ChunkBytes ELSE @,
                  !.run = IF sp THEN 0 ELSE @ + 1,
                  !.spoken = @ \/ sp,
                  !.onset_at = IF @ = 0 /\ st = "GOING" THEN n ELSE @,
                  !.last_speech = IF sp THEN n ELSE @]

\* the classifier's state as it was when the chunk now classified arrived
BeforeChunk(h) ==
    [h EXCEPT !.prev = [speaking |-> speaking, level |-> level,
                        background |-> background, foreground |-> foreground]]

\* the variables only the processing loop and its closures touch
loopVars == <<frames, buffer, data, is_speech, status, level, background,
              foreground, speaking, off_time, started>>
resVars == <<out_file, py_audio, stream, header>>
wuVars == <<wu_i, wu_qsize, script>>
\* the variables of the energy measurement
dspVars == <<audio_array, energy>>

\* raise e out of the statement at pc
Raise(e) ==
    /\ exc' = e
    /\ exc_at' = pc
    /\ pc' = Unwind

----------------------------------------------------------------------------
(* The capture callback (producer) *)

\* energies the driver may deliver as its n-th chunk
EnergiesOf(n) ==
    IF n > N_DISCARD /\ n <= N_DISCARD + MaxVar THEN {script.low, script.high}
    ELSE {script.low}

\* stream_callback: assert in_data is not None; audio_queue.put((in_data, n_frame))
\* (the driver calls it while fewer than room entries wait)
Callback(room) ==
    /\ stream = "open"
    /\ cb_exc = "none"
    /\ produced < MaxChunks
    /\ Len(audio_queue) < room
    /\ \E en \in EnergiesOf(produced + 1) :
          LET r == stream_callback(audio_queue, [id |-> produced + 1, db |-> en])
          IN  /\ audio_queue' = r.queue
              /\ cb_exc' = r.raised
    /\ produced' = produced + 1
    /\ UNCHANGED <<dspVars, pc, exc, exc_at, resVars, loopVars, wuVars, hist>>

\* the capture thread calls stream_callback with in_data = None; an exception
\* raised in the callback is printed by the library and ends the capture: no
\* further callback is made, and main() is not interrupted
StreamCallbackNull ==
    /\ stream = "open"
    /\ cb_exc = "none"
    /\ Len(audio_queue) < (IF hist.wu_done THEN MaxQueue ELSE MaxBacklog)
    /\ LET r == stream_callback(audio_queue, NoData)
       IN  /\ audio_queue' = r.queue
           /\ cb_exc' = r.raised
           /\ hist' = [hist EXCEPT !.nulls = @ + 1,
                                   !.null_kept = @ /\ r.queue = audio_queue]
    /\ UNCHANGED <<dspVars, pc, exc, exc_at, produced, resVars, loopVars, wuVars>>

StreamCallback == Callback(IF hist.wu_done THEN MaxQueue ELSE MaxBacklog)

----------------------------------------------------------------------------
(* main(): acquisition *)

\* wave.open(out_file_name, "wb")
OpenWave ==
    /\ pc = "open_wave"
    /\ \/ /\ out_file' = "open"
          /\ hist' = [hist EXCEPT !.opens.file = @ + 1]
          /\ pc' = "open_pa"
          /\ UNCHANGED <<exc, exc_at>>
       \/ /\ Raise("OSError")
          /\ UNCHANGED <<out_file, hist>>
    /\ UNCHANGED <<dspVars, cb_exc,
                   audio_queue, produced, py_audio, stream, header, loopVars, wuVars>>

\* open_pyaudio(): yield (py_audio := PyAudio())
OpenPyAudio ==
    /\ pc = "open_pa"
    /\ \/ /\ py_audio' = "open"
          /\ hist' = [hist EXCEPT !.opens.pa = @ + 1]
          /\ pc' = "configure"
          /\ UNCHANGED <<exc, exc_at>>
       \/ /\ Raise("OSError")
          /\ UNCHANGED <<py_audio, hist>>
    /\ UNCHANGED <<dspVars, cb_exc,
                   audio_queue, produced, out_file, stream, header, loopVars, wuVars>>

\* out_file.setnchannels / setsampwidth / setframerate
Configure ==
    /\ pc = "configure"
    /\ header' = TRUE
    /\ pc' = "open_stream"
    /\ UNCHANGED <<dspVars, cb_exc,
                   exc, exc_at, audio_queue, produced, out_file, py_audio, stream,
                   loopVars, wuVars, hist>>

\* stream = py_audio.open(..., stream_callback=stream_callback)
OpenStream ==
    /\ pc = "open_stream"
    /\ \/ /\ stream' = "open"
          /\ hist' = [hist EXCEPT !.opens.stream = @ + 1]
          /\ pc' = "prompt"
          /\ UNCHANGED <<exc, exc_at>>
       \/ /\ Raise("OSError")
          /\ UNCHANGED <<stream, hist>>
    /\ UNCHANGED <<dspVars, cb_exc,
                   audio_queue, produced, out_file, py_audio, header, loopVars, wuVars>>

\* input("Press Enter to start recording...")
\* (returns, or raises EOFError when standard input is closed)
Prompt ==
    /\ pc = "prompt"
    /\ \/ pc' = "wu_check" /\ UNCHANGED <<exc, exc_at>>
       \/ Raise("EOFError")
    /\ UNCHANGED <<dspVars, cb_exc,
                   audio_queue, produced, resVars, loopVars, wuVars, hist>>

----------------------------------------------------------------------------
(* discard_first_at_least(audio_queue) *)

\* if audio_queue.qsize() < n_discard:
WarmupCheck ==
    /\ pc = "wu_check"
    /\ wu_qsize' = Len(audio_queue)
    /\ wu_i' = 0
    /\ pc' = IF NeedsDrain(Len(audio_queue)) THEN "wu_get" ELSE "wu_clear"
    /\ UNCHANGED <<dspVars, cb_exc,
                   exc, exc_at, audio_queue, produced, resVars, loopVars, script, hist>>

\* for _ in range(n_discard): audio_queue.get(timeout=0.1)    -- an entry arrives
WarmupGet ==
    /\ pc = "wu_get"
    /\ audio_queue # <<>>
    /\ audio_queue' = QueueGet(audio_queue).rest
    /\ wu_i' = wu_i + 1
    /\ pc' = IF DrainDone(wu_i + 1) THEN "wu_clear" ELSE "wu_get"
    /\ hist' = [hist EXCEPT !.wu_got = @ + 1]
    /\ UNCHANGED <<dspVars, cb_exc,
                   exc, exc_at, produced, resVars, loopVars, wu_qsize, script>>

\* ... audio_queue.get(timeout=0.1)    -- nothing arrives for 100 ms: queue.Empty
WarmupTimeout ==
    /\ pc = "wu_get"
    /\ audio_queue = <<>>
    /\ Raise("Empty")
    /\ UNCHANGED <<dspVars, cb_exc,
                   audio_queue, produced, resVars, loopVars, wuVars, hist>>

\* with audio_queue.mutex: audio_queue.queue.clear()
WarmupClear ==
    /\ pc = "wu_clear"
    /\ audio_queue' = QueueClear(audio_queue)
    /\ hist' = [hist EXCEPT !.wu_cleared = Len(audio_queue) - Len(audio_queue'),
                            !.wu_left = Len(audio_queue'),
                            !.wu_done = TRUE, !.wu_floor = produced]
    /\ pc' = "loop_get"
    /\ UNCHANGED <<dspVars, cb_exc, exc, exc_at, produced, resVars, loopVars, wuVars>>

----------------------------------------------------------------------------
(* main(): the processing loop *)

\* data, _ = audio_queue.get(timeout=0.1)    -- an entry is there or arrives
LoopGet ==
    /\ pc = "loop_get"
    /\ audio_queue # <<>>
    /\ data' = <<QueueGet(audio_queue).item>>
    /\ audio_queue' = QueueGet(audio_queue).rest
    /\ hist' = [hist EXCEPT !.gets = @ + 1]
    /\ pc' = "classify"
    /\ UNCHANGED <<dspVars, cb_exc,
                   exc, exc_at, produced, resVars, wuVars, frames, buffer, is_speech,
                   status, level, background, foreground, speaking, off_time, started>>

\* ... audio_queue.get(timeout=0.1)    -- nothing arrives for 100 ms: queue.Empty,
\* which nothing in main() catches
LoopTimeout ==
    /\ pc = "loop_get"
    /\ audio_queue = <<>>
    /\ Raise("Empty")
    /\ hist' = [hist EXCEPT !.timeouts = @ + 1]
    /\ UNCHANGED <<dspVars, cb_exc, audio_queue, produced, resVars, loopVars, wuVars>>

\* audio_array = np.frombuffer(data, ...); is_speech = classify_sample(audio_array)
LoopClassify ==
    /\ pc = "classify"
    /\ LET r == classify_frame(data[1].db, level, background, foreground, speaking)
       IN  /\ level' = r.level
           /\ background' = r.background
           /\ foreground' = r.foreground
           /\ speaking' = r.speaking
           /\ is_speech' = r.speaking
    /\ hist' = [BeforeChunk(hist) EXCEPT !.classified = Append(@, data[1].id)]
    /\ pc' = "record"
    /\ UNCHANGED <<dspVars, cb_exc,
                   exc, exc_at, audio_queue, produced, resVars, wuVars, frames, buffer,
                   data, status, off_time, started>>

\* variant: the chunk on which the session stops is appended as well
Accepts_also_stopping(st) == st \in {"GOING", "STOPPING"}

\* match status: the case in which the chunk is appended to the buffer
Accepts(st) == st = "GOING"

\* status = recording_status(is_speech); match status: ...
LoopRecord ==
    /\ pc = "record"
    /\ LET r == recording_status(is_speech, off_time, started)
           w == AppendAndFlush(buffer, PayloadOf(data[1]))
       IN  /\ status' = r.status
           /\ off_time' = r.off_time
           /\ started' = r.started
           /\ hist' = Observe(hist, is_speech, r.status)
           /\ IF Accepts(r.status)
              THEN /\ buffer' = w.buffer
                   /\ frames' = IF w.wrote THEN Normal(frames \o w.out) ELSE frames
              ELSE UNCHANGED <<buffer, frames>>
           /\ pc' = IF r.status = "STOPPING" THEN "close_stream" ELSE "loop_get"
    /\ UNCHANGED <<dspVars, cb_exc,
                   exc, exc_at, audio_queue, produced, resVars, wuVars, data, is_speech,
                   level, background, foreground, speaking>>

----------------------------------------------------------------------------
(* main(): release *)

\* stream.close()
CloseStream ==
    /\ pc = "close_stream"
    /\ stream' = "closed"
    /\ hist' = [hist EXCEPT !.closes.stream = @ + 1]
    /\ pc' = "exit_pa"
    /\ UNCHANGED <<dspVars, cb_exc,
                   exc, exc_at, audio_queue, produced, out_file, py_audio, header,
                   loopVars, wuVars>>

\* open_pyaudio(), finally: py_audio.terminate() if py_audio else None
\* (PyAudio.terminate closes the streams of the instance that are still open)
ExitPyAudio ==
    /\ pc = "exit_pa"
    /\ py_audio' = "closed"
    /\ stream' = IF stream = "open" THEN "closed" ELSE stream
    /\ hist' = [hist EXCEPT !.closes.pa = @ + 1,
                            !.closes.stream = IF stream = "open" THEN @ + 1 ELSE @]
    /\ pc' = "exit_wave"
    /\ UNCHANGED <<dspVars, cb_exc,
                   exc, exc_at, audio_queue, produced, out_file, header, loopVars, wuVars>>

\* leaving "with wave.open(...) as out_file": out_file.close()
ExitWave ==
    /\ pc = "exit_wave"
    /\ out_file' = "closed"
    /\ hist' = [hist EXCEPT !.closes.file = @ + 1]
    /\ pc' = IF exc = "none" THEN "done" ELSE "failed"
    /\ UNCHANGED <<dspVars, cb_exc,
                   exc, exc_at, audio_queue, produced, py_audio, stream, header,
                   loopVars, wuVars>>

Next ==
    \/ StreamCallback \/ StreamCallbackNull
    \/ OpenWave \/ OpenPyAudio \/ Configure \/ OpenStream \/ Prompt
    \/ WarmupCheck \/ WarmupGet \/ WarmupTimeout \/ WarmupClear
    \/ LoopGet \/ LoopTimeout \/ LoopClassify \/ LoopRecord
    \/ CloseStream \/ ExitPyAudio \/ ExitWave

Spec == Init /\ [][Next]_vars

(* The session while the driver keeps delivering: every bounded wait of
   audio_queue.get ends with an entry, so no retrieval times out.  main() runs
   on its own thread and the callback on the driver's: each keeps taking steps
   while it can. *)

MainStep ==
    \/ OpenWave \/ OpenPyAudio \/ Configure \/ OpenStream \/ Prompt
    \/ WarmupCheck \/ WarmupGet \/ WarmupClear
    \/ LoopGet \/ LoopClassify \/ LoopRecord
    \/ CloseStream \/ ExitPyAudio \/ ExitWave

\* the callback, never more than MaxLiveAhead entries ahead of main()
LiveCallback == Callback(MaxLiveAhead)

NextLive == LiveCallback \/ MainStep

SpecLive == Init /\ [][NextLive]_vars /\ WF_vars(MainStep) /\ WF_vars(LiveCallback)

----------------------------------------------------------------------------
(* recording_status on its own: any decision sequence, also past STOPPING *)

StatusStep ==
    /\ pc = "unit_status"
    /\ \E sp \in BOOLEAN :
          /\ sp \/ hist.run < MaxRun
          /\ LET r == recording_status(sp, off_time, started)
             IN  /\ is_speech' = sp
                 /\ status' = r.status
                 /\ off_time' = r.off_time
                 /\ started' = r.started
          /\ hist' = [hist EXCEPT !.run = IF sp THEN 0 ELSE @ + 1,
                                  !.spoken = @ \/ sp]
    /\ UNCHANGED <<dspVars, cb_exc,
                   pc, exc, exc_at, audio_queue, produced, resVars, wuVars, frames,
                   buffer, data, level, background, foreground, speaking>>

InitStatus ==
    /\ InitAt("unit_status")
    /\ script = [low |-> QuietDb, high |-> LoudDb]

NextStatus == StatusStep

SpecStatus == InitStatus /\ [][NextStatus]_vars

----------------------------------------------------------------------------
(* The classifier and recording_status on a synthetic sequence: low energy for
   SYNTH_LOW_MS, script.high for SYNTH_HIGH_MS, then low energy again *)

SYNTH_LOW_MS == 3 * 1000
SYNTH_HIGH_MS == 1 * 1000
SynthLowChunks == SYNTH_LOW_MS \div CHUNK_MS
SynthHighChunks == SYNTH_HIGH_MS \div CHUNK_MS
\* index of the last chunk of the high-energy segment
SynthHighEnd == SynthLowChunks + SynthHighChunks
SynthLows == {30 * Scale, 50 * Scale}
SynthGaps == {15, 20, 30, 45}

SynthEnergy(n) ==
    IF n > SynthLowChunks /\ n <= SynthHighEnd THEN script.high ELSE script.low

\* one iteration of the processing loop on the next chunk of the sequence
SynthStep ==
    /\ pc = "unit_synth"
    /\ produced < MaxSynthChunks
    /\ LET c == [id |-> produced + 1, db |-> SynthEnergy(produced + 1)]
           k == classify_frame(c.db, level, background, foreground, speaking)
           r == recording_status(k.speaking, off_time, started)
           w == AppendAndFlush(buffer, PayloadOf(c))
       IN  /\ data' = <<c>>
           /\ IF Accepts(r.status)
              THEN /\ buffer' = w.buffer
                   /\ frames' = IF w.wrote THEN Normal(frames \o w.out) ELSE frames
              ELSE UNCHANGED <<buffer, frames>>
           /\ level' = k.level
           /\ background' = k.background
           /\ foreground' = k.foreground
           /\ speaking' = k.speaking
           /\ is_speech' = k.speaking
           /\ status' = r.status
           /\ off_time' = r.off_time
           /\ started' = r.started
           /\ hist' = Observe([BeforeChunk(hist) EXCEPT !.classified = Append(@, c.id)],
                              k.speaking, r.status)
           /\ pc' = IF r.status = "STOPPING" THEN "unit_done" ELSE pc
    /\ produced' = produced + 1
    /\ UNCHANGED <<dspVars, cb_exc, exc, exc_at, audio_queue, resVars, wuVars>>

InitSynth ==
    /\ InitAt("unit_synth")
    /\ \E lo \in SynthLows, g \in SynthGaps :
          script = [low |-> lo, high |-> lo + g * Scale]

NextSynth == SynthStep

SpecSynth == InitSynth /\ [][NextSynth]_vars

----------------------------------------------------------------------------
(* The classifier on its own: classify_sample called on chunk after chunk *)

ClassifyEnergies == {0 - 20 * Scale, QuietDb, LoudDb, 90 * Scale}

\* energies of the first chunk: also the quietest and loudest a chunk can have
FirstEnergies == ClassifyEnergies \cup {0 - 25 * Scale, 0, 96 * Scale}

ClassifyStep ==
    /\ pc = "unit_classify"
    /\ produced < MaxClassifyChunks
    /\ \E cur \in (IF produced = 0 THEN FirstEnergies ELSE ClassifyEnergies) :
          LET k == classify_frame(cur, level, background, foreground, speaking)
          IN  /\ data' = <<[id |-> produced + 1, db |-> cur]>>
              /\ level' = k.level
              /\ background' = k.background
              /\ foreground' = k.foreground
              /\ speaking' = k.speaking
              /\ is_speech' = k.speaking
    /\ hist' = [BeforeChunk(hist) EXCEPT !.classified = Append(@, produced + 1)]
    /\ produced' = produced + 1
    /\ UNCHANGED <<dspVars, cb_exc, pc, exc, exc_at, audio_queue, resVars, wuVars, frames,
                   buffer, status, off_time, started>>

InitClassify ==
    /\ InitAt("unit_classify")
    /\ script = [low |-> QuietDb, high |-> LoudDb]

NextClassify == ClassifyStep

SpecClassify == InitClassify /\ [][NextClassify]_vars

----------------------------------------------------------------------------
(* sample_decibel_energy: the energy of the samples of one chunk *)

\* np.log10 of zero
NegInf == 0 - 1000000 * Scale

\* binary digits kept of the mantissa and of the logarithm's fraction
MantissaBits == 12
FractionBits == 10

\* 10 * log10(2), in units of 1/10000
TenLog10Of2 == 30103

RECURSIVE Pow2(_)
Pow2(n) == IF n <= 0 THEN 1 ELSE 2 * Pow2(n - 1)

\* the sum of the squares of arr[i], arr[i + 1], ...
RECURSIVE SumSq(_, _)
SumSq(arr, i) ==
    IF i > Len(arr) THEN 0 ELSE arr[i] * arr[i] + SumSq(arr, i + 1)

\* variant: the first sample is left out of the product
Dot_skips_first(arr) == SumSq(arr, 2)

\* arr.dot(arr) on the samples widened to 64 bits
Dot(arr) == SumSq(arr, 1)

\* the whole part of log2(p / q), for p, q > 0
RECURSIVE Log2Floor(_, _)
Log2Floor(p, q) ==
    IF p < q THEN Log2Floor(2 * p, q) - 1
    ELSE IF p \div 2 >= q THEN Log2Floor(p, 2 * q) + 1
    ELSE 0

\* p / (q * 2^ex), a number in [1, 2), in units of 2^-MantissaBits
Mantissa(p, q, ex) ==
    IF ex >= MantissaBits THEN p \div (q * Pow2(ex - MantissaBits))
    ELSE (p * Pow2(MantissaBits - ex)) \div q

\* the first n binary digits of log2 of the mantissa m, by repeated squaring
RECURSIVE FracLog2(_, _)
FracLog2(m, n) ==
    IF n = 0 THEN 0
    ELSE The({IF sq >= Pow2(MantissaBits + 1)
              THEN Pow2(n - 1) + FracLog2(sq \div 2, n - 1)
              ELSE FracLog2(sq, n - 1)
              : sq \in {(m * m) \div Pow2(MantissaBits)}})

\* log2(p / q) in units of 2^-FractionBits
Log2(p, q) ==
    The({ex * Pow2(FractionBits)
         + FracLog2(Mantissa(p, q, ex), FractionBits)
         : ex \in {Log2Floor(p, q)}})

\* np.log10(p / q) * 10.0 in fixed point, for p, q > 0
Log10Times10(p, q) ==
    (((TenLog10Of2 * Log2(p, q)) \div Pow2(FractionBits)) * Scale) \div 10000

\* power = arr.dot(arr) / arr.size; np.log10(power) * 10.0
sample_decibel_energy(arr) ==
    The({IF d = 0 THEN NegInf ELSE Log10Times10(d, Len(arr))
         : d \in {Dot(arr)}})

\* sample values; the sum of MaxSamples + 1 squares stays below 2^31
Samples == {0 - 20000, 0 - 3, 0, 7, 20000}

\* the same chunk with two of its samples exchanged is measured again
PermuteAndMeasure ==
    /\ pc = "unit_energy"
    /\ \E i, j \in 1 .. Len(audio_array) :
          /\ i < j
          /\ audio_array' = [audio_array EXCEPT ![i] = audio_array[j],
                                                ![j] = audio_array[i]]
    /\ energy' = sample_decibel_energy(audio_array')
    /\ UNCHANGED <<cb_exc, pc, exc, exc_at, audio_queue, produced, resVars, loopVars, wuVars,
                   hist>>

InitEnergy ==
    /\ InitProgram("unit_energy")
    /\ script = [low |-> QuietDb, high |-> LoudDb]
    /\ \E n \in 1 .. MaxSamples :
          \E arr \in [1 .. n -> Samples] :
             /\ audio_array = arr
             /\ energy = sample_decibel_energy(arr)
             /\ hist = [InitHist EXCEPT !.arr0 = arr]

NextEnergy == PermuteAndMeasure

SpecEnergy == InitEnergy /\ [][NextEnergy]_vars

----------------------------------------------------------------------------
(* The processing loop on a sequence of chunks that all have the same energy *)

ConstEnergies == {0 - 20 * Scale, 0, 30 * Scale, 96 * Scale}

InitConst ==
    /\ InitAt("unit_synth")
    /\ \E en \in ConstEnergies : script = [low |-> en, high |-> en]

SpecConst == InitConst /\ [][NextSynth]_vars

----------------------------------------------------------------------------
(* Claims *)

Rank(s) == CASE s = "PENDING" -> 0 [] s = "GOING" -> 1 [] s = "STOPPING" -> 2

\* C1: the statuses the processing loop observes are zero or more PENDING, then
\* GOING, then at most one STOPPING: PENDING never follows GOING, STOPPING is
\* observed at most once (it is the last status observed), GOING never follows it.
C1_StatusOrder ==
    LET o == hist.observed
    IN  /\ o # <<>> => o[1] # "STOPPING"
        /\ \A k \in 1 .. Len(o) - 1 :
              /\ Rank(o[k]) <= Rank(o[k + 1])
              /\ o[k] # "STOPPING"
              /\ o[k + 1] = "STOPPING" => o[k] = "GOING"

C1_Witness ==
    /\ pc = "done"
    /\ hist.observed[1] = "PENDING"
    /\ hist.observed[Len(hist.observed)] = "STOPPING"
    /\ hist.observed[Len(hist.observed) - 1] = "GOING"

\* C2: a timeout of the processing loop's retrieval is retried: it never ends the
\* session with an error, and the loop exits only when STOPPING is observed.
C2_TimeoutRetried ==
    /\ hist.timeouts > 0 => exc = "none"
    /\ pc \in {"close_stream", "exit_pa", "exit_wave", "done", "failed"}
          /\ hist.wu_done => status = "STOPPING"

\* C3: when STOPPING is observed, the bytes written to the sink number
\* max(0, bytes appended - buffer_size), and the buffer holds the last
\* min(bytes appended, buffer_size) appended bytes, which are never written.
C3_SinkTotal ==
    status = "STOPPING" =>
        /\ BytesLen(frames) = Max(0, hist.appended - buffer_size)
        /\ BytesLen(buffer) = hist.appended - BytesLen(frames)

C3_Witness ==
    /\ pc = "done"
    /\ status = "STOPPING"
    /\ hist.appended > buffer_size
    /\ BytesLen(frames) = hist.appended - buffer_size

\* C4: once speech has been decided, recording_status returns STOPPING exactly on
\* the chunks that end a run of consecutive non-speech decisions lasting more than
\* MAX_PAUSE_MS (the 101st of the run and later, with 20 ms chunks), and a speech
\* decision sets off_time to 0 and returns GOING.
C4_StopExactly ==
    status # "none" =>
        /\ status = "STOPPING" <=> (hist.spoken /\ hist.run * CHUNK_MS > MAX_PAUSE_MS)
        /\ is_speech => status = "GOING" /\ off_time = 0
        /\ hist.spoken => off_time = hist.run * CHUNK_MS

C4_Witness ==
    /\ status = "STOPPING"
    /\ hist.run = 101
    /\ hist.spoken

\* C5 as stated: on low 3 s / high 1 s / low, with high at least the starting
\* threshold above low, the session is GOING from a chunk of the high segment on,
\* and STOPPING is observed after at least MAX_PAUSE_MS and at most
\* MAX_PAUSE_MS + CHUNK_MS of low energy following the high segment.
C5_Original ==
    LET n == Len(hist.observed)
        \* low-energy audio received after the high segment, before chunk n
        lowBefore == (n - 1 - SynthHighEnd) * CHUNK_MS
    IN  /\ n >= SynthHighEnd =>
              hist.onset_at > SynthLowChunks /\ hist.onset_at <= SynthHighEnd
        /\ (n > 0 /\ status = "STOPPING") =>
              lowBefore >= MAX_PAUSE_MS - CHUNK_MS /\ lowBefore <= MAX_PAUSE_MS + CHUNK_MS
        /\ lowBefore > MAX_PAUSE_MS + CHUNK_MS => status = "STOPPING"

\* C5 amended: the session leaves PENDING, if at all, on a chunk of the high
\* segment and stays in speech to its end; STOPPING is observed exactly
\* MAX_PAUSE_MS / CHUNK_MS + 1 chunks after the last chunk decided speech, which is
\* no chunk before the last high one, so never before MAX_PAUSE_MS of low energy.
C5_Amended ==
    LET n == Len(hist.observed)
    IN  /\ hist.onset_at # 0 =>
              hist.onset_at > SynthLowChunks /\ hist.onset_at <= SynthHighEnd
        /\ (hist.onset_at # 0 /\ n >= SynthHighEnd) => hist.last_speech >= SynthHighEnd
        /\ (n > 0 /\ status = "STOPPING") =>
              /\ n = hist.last_speech + (MAX_PAUSE_MS \div CHUNK_MS) + 1
              /\ (n - 1 - SynthHighEnd) * CHUNK_MS >= MAX_PAUSE_MS
        /\ (hist.onset_at # 0 /\ status # "STOPPING") =>
              n <= hist.last_speech + (MAX_PAUSE_MS \div CHUNK_MS)

C5_Witness ==
    /\ pc = "unit_done"
    /\ status = "STOPPING"
    /\ hist.onset_at > SynthLowChunks
    /\ hist.last_speech > SynthHighEnd + 1

\* C6 as stated: called on fewer than n_discard entries, the warm-up removes
\* exactly the entries that were there, never fails, and leaves the channel empty.
C6_Original ==
    (wu_qsize >= 0 /\ wu_qsize < N_DISCARD) =>
        /\ exc_at # "wu_get"
        /\ hist.wu_done => /\ hist.wu_got + hist.wu_cleared = wu_qsize
                           /\ hist.wu_left = 0

\* C6 amended: called on fewer than n_discard entries, the warm-up retrieves
\* n_discard entries one by one, waiting for the producer; when it returns it has
\* removed every entry put so far (n_discard retrieved, the rest cleared) and the
\* channel is empty at that moment; a retrieval that finds the channel empty for
\* 100 ms raises queue.Empty before n_discard entries were retrieved.
C6_Amended ==
    (wu_qsize >= 0 /\ wu_qsize < N_DISCARD) =>
        /\ hist.wu_got <= N_DISCARD
        /\ hist.wu_done => /\ hist.wu_got = N_DISCARD
                           /\ hist.wu_got + hist.wu_cleared = hist.wu_floor
                           /\ hist.wu_left = 0
        /\ exc_at = "wu_get" => /\ exc = "Empty"
                                /\ hist.wu_got < N_DISCARD
                                /\ ~hist.wu_done

C6_Witness ==
    /\ hist.wu_done
    /\ wu_qsize >= 0 /\ wu_qsize < N_DISCARD
    /\ hist.wu_got = N_DISCARD
    /\ hist.wu_cleared > 0

\* C7 as stated: called on at least n_discard entries, the warm-up drops those
\* entries and no others, and leaves the channel empty.
C7_Original ==
    (wu_qsize >= N_DISCARD /\ hist.wu_done) =>
        /\ hist.wu_got + hist.wu_cleared = wu_qsize
        /\ hist.wu_left = 0

\* C7 amended: called on at least n_discard entries, the warm-up retrieves nothing
\* and its clear drops those entries together with every entry the producer put
\* between the size test and the clear; the channel is empty at that moment.
C7_Amended ==
    (wu_qsize >= N_DISCARD /\ hist.wu_done) =>
        /\ hist.wu_got = 0
        /\ hist.wu_cleared >= wu_qsize
        /\ hist.wu_cleared = hist.wu_floor
        /\ hist.wu_left = 0

C7_Witness ==
    /\ hist.wu_done
    /\ wu_qsize >= N_DISCARD
    /\ hist.wu_cleared > wu_qsize

\* C8: the chunks handed to the classifier are, in order and without gap or
\* repetition, the entries put after the warm-up clear, and every retrieval is
\* followed by one classifier step and then one recording_status step before the
\* next retrieval.
C8_Fifo ==
    LET nc == Len(hist.classified)
        no == Len(hist.observed)
    IN  /\ \A k \in 1 .. nc : hist.classified[k] = hist.wu_floor + k
        /\ hist.gets = (IF pc = "classify" THEN nc + 1 ELSE nc)
        /\ nc = (IF pc = "record" THEN no + 1 ELSE no)
        /\ pc \in {"classify", "record"} => data[1].id = hist.wu_floor + hist.gets

C8_Witness ==
    /\ pc = "classify"
    /\ Len(hist.classified) >= 3
    /\ Len(audio_queue) >= 2

\* C9: on every way out of main() (after STOPPING, after a failed open, after an
\* error in the warm-up or the loop) the sink, the capture device and its stream
\* are released, and each is released exactly once for each successful open.
C9_ReleasePaired ==
    /\ \A r \in {"file", "pa", "stream"} :
          /\ hist.closes[r] <= hist.opens[r]
          /\ hist.opens[r] <= 1
    /\ pc \in {"done", "failed"} =>
          /\ \A r \in {"file", "pa", "stream"} : hist.closes[r] = hist.opens[r]
          /\ out_file # "open" /\ py_audio # "open" /\ stream # "open"

C9_Witness ==
    /\ pc = "failed"
    /\ exc_at = "loop_get"
    /\ hist.opens.stream = 1 /\ hist.closes.stream = 1
    /\ hist.closes.pa = 1 /\ hist.closes.file = 1

C11_ConstantNeverSpeech ==
    hist.classified # <<>> =>
        /\ ~speaking /\ ~is_speech
        /\ ~hist.spoken /\ hist.onset_at = 0 /\ ~started
        /\ status = "PENDING"
        /\ hist.appended = 0 /\ buffer = <<>> /\ frames = <<>>

C11_Witness ==
    /\ Len(hist.classified) >= 300
    /\ status = "PENDING"
    /\ script.low = script.high

\* C12: when a chunk is appended, the buffer is at most buffer_size plus one chunk
\* long at the test; a flush writes its len - buffer_size leading bytes and keeps
\* exactly the buffer_size that follow; without a flush the buffer is the appended
\* one; after every step the buffer is at most buffer_size long.
C12_BufferBound ==
    [][ /\ BytesLen(buffer') <= buffer_size
        /\ (pc = "record" /\ hist.appended' # hist.appended) =>
              LET b == buffer \o PayloadOf(data[1])
                  n == BytesLen(b)
              IN  /\ n <= buffer_size + ChunkBytes
                  /\ IF frames' # frames
                     THEN /\ n > buffer_size
                          /\ frames' = Normal(frames \o TakeBytes(b, n - buffer_size))
                          /\ buffer' = DropBytes(b, n - buffer_size)
                          /\ BytesLen(buffer') = buffer_size
                     ELSE /\ n <= buffer_size
                          /\ buffer' = b ]_vars

C12_Witness ==
    /\ pc = "loop_get"
    /\ BytesLen(frames) >= 2 * ChunkBytes
    /\ BytesLen(buffer) = buffer_size

\* C13: as long as no chunk was decided speech, whatever their number, the status
\* is PENDING, off_time is 0 and nothing is appended or written; off_time is
\* still 0 on the chunk that takes the status from PENDING to GOING.
C13_LeadingSilence ==
    /\ ~hist.spoken =>
          /\ status \in {"none", "PENDING"}
          /\ off_time = 0 /\ ~started
          /\ hist.appended = 0 /\ buffer = <<>> /\ frames = <<>>
    /\ (hist.onset_at # 0 /\ Len(hist.observed) = hist.onset_at) =>
          /\ status = "GOING" /\ off_time = 0 /\ started
          /\ \A k \in 1 .. hist.onset_at - 1 : hist.observed[k] = "PENDING"

C13_Witness ==
    /\ hist.onset_at >= 3
    /\ Len(hist.observed) = hist.onset_at
    /\ status = "GOING"

\* the whole payloads of the chunks with serial numbers a .. b, in order
ChunkRun(a, b) ==
    [k \in 1 .. (b - a + 1) |-> [id |-> a + k - 1, off |-> 0, len |-> ChunkBytes]]

\* C14: when STOPPING is observed, the buffer that is dropped holds only bytes of
\* chunks that came after the last chunk decided speech (all decided non-speech),
\* and the sink holds, in full and in order, every chunk from the one that started
\* the recording to the last one decided speech.
C14_ResidualIsSilence ==
    status = "STOPPING" =>
        /\ \A i \in 1 .. Len(buffer) :
              buffer[i].id > hist.wu_floor + hist.last_speech
        /\ BytesLen(buffer) = hist.run * ChunkBytes - ChunkBytes
        /\ frames = ChunkRun(hist.wu_floor + hist.onset_at,
                             hist.wu_floor + hist.last_speech)

C14_Witness ==
    /\ status = "STOPPING"
    /\ pc = "done"
    /\ hist.last_speech > hist.onset_at
    /\ Len(frames) = hist.last_speech - hist.onset_at + 1
    /\ buffer # <<>>

\* C15: while the driver keeps delivering, once a chunk has been decided speech
\* (every chunk after the first MaxVar ones is quiet, so more than MAX_PAUSE_MS of
\* non-speech decisions follow), the loop observes STOPPING and main() returns
\* with the stream, the capture device and the sink closed.
C15_EventuallyStops ==
    hist.spoken ~> (/\ pc = "done"
                    /\ status = "STOPPING"
                    /\ stream = "closed" /\ py_audio = "closed" /\ out_file = "closed")

C15_Witness ==
    /\ hist.spoken
    /\ pc = "done"
    /\ status = "STOPPING"
    /\ stream = "closed" /\ out_file = "closed"

\* C16: the energy of a chunk depends only on the multiset of its samples: however
\* the samples of a chunk are permuted, the sum of their squares, and so the decibel
\* energy computed from it, is that of the chunk as it was delivered.
C16_PermutationInvariant ==
    pc = "unit_energy" =>
       /\ Dot(audio_array) = Dot(hist.arr0)
       /\ energy = sample_decibel_energy(hist.arr0)
       /\ energy = sample_decibel_energy(audio_array)

\* a chunk of MaxSamples samples with a measurable energy has been permuted
C16_Witness ==
    /\ pc = "unit_energy"
    /\ Len(audio_array) = MaxSamples
    /\ audio_array # hist.arr0
    /\ energy # NegInf
    /\ energy > 80 * Scale

\* a chunk has been classified while the classifier was speaking
WasSpeaking == hist.classified # <<>> /\ hist.prev.speaking

\* the two conditions under which speech continues, on the level after the update,
\* the background and the foreground held before the chunk
Continues ==
    /\ level - hist.prev.background >= CONTINUING_THRESHOLD_DB * Scale
    /\ level - hist.prev.foreground >= STOPPING_THRESHOLD_DB * Scale

\* the condition under which speech starts, on the level after the update and the
\* background held before the chunk
Starts == level - hist.prev.background >= STARTING_THRESHOLD_DB * Scale

\* C17 as stated: while the classifier is speaking, the decision for the next chunk
\* is speech only if level is at least continuing_threshold_db above background and
\* at least stopping_threshold_db above the foreground held before the chunk; if
\* either condition fails, the decision returned for that chunk is non-speech.
C17_Original ==
    WasSpeaking => (is_speech <=> Continues)

\* C17 amended: while the classifier is speaking, the decision for the next chunk is
\* speech if both continuing conditions hold; if either fails speaking stops, and
\* the decision returned is non-speech unless level is at least
\* starting_threshold_db above background, in which case speech starts again on
\* that same chunk with foreground set to level.
C17_Amended ==
    WasSpeaking =>
       /\ is_speech <=> (Continues \/ Starts)
       /\ is_speech = speaking
       /\ (~Continues /\ Starts) => foreground = level

\* speech stopped and started again on one chunk
C17_Witness ==
    /\ WasSpeaking
    /\ ~Continues
    /\ is_speech
    /\ level - hist.prev.foreground < STOPPING_THRESHOLD_DB * Scale

\* C18 as stated: on a chunk where the classifier goes from speaking to not
\* speaking, the background after the chunk is at most the background before it.
C18_Original ==
    (WasSpeaking /\ ~speaking) => background <= hist.prev.background

\* C18 amended: on a chunk where the classifier goes from speaking to not speaking,
\* background is lowered to min(background, level) and then adjusted toward level as
\* on any non-speech chunk: it ends at level when level is at most the background
\* before the chunk, and otherwise at that background plus weak_adjustment of the
\* gap, so it rises by less than weak_adjustment of starting_threshold_db.
C18_Amended ==
    (WasSpeaking /\ ~speaking) =>
       /\ background = IF level <= hist.prev.background THEN level
                       ELSE hist.prev.background
                            + (WEAK_ADJUSTMENT * (level - hist.prev.background)) \div 100
       /\ 100 * (background - hist.prev.background)
             < WEAK_ADJUSTMENT * STARTING_THRESHOLD_DB * Scale

\* speaking stopped on a chunk and the background rose
C18_Witness ==
    /\ WasSpeaking
    /\ ~speaking
    /\ background > hist.prev.background

\* C19: the decision changes from non-speech on one chunk to speech on the next
\* only if level, after the update, is at least starting_threshold_db above
\* background; on every chunk where speaking starts, also one on which it had just
\* stopped, foreground equals level after the chunk and background is what it was
\* before the chunk.
C19_StartOnlyAboveThreshold ==
    /\ (hist.classified # <<>> /\ ~hist.prev.speaking /\ speaking) =>
          /\ hist.prev.background # None
          /\ Starts
          /\ foreground = level
          /\ background = hist.prev.background
    /\ (WasSpeaking /\ speaking /\ ~Continues) =>
          /\ Starts
          /\ foreground = level
          /\ background = hist.prev.background

\* speaking started after at least one non-speech chunk, on a chunk whose own
\* energy differs from the level
C19_Witness ==
    /\ hist.classified # <<>>
    /\ ~hist.prev.speaking
    /\ speaking
    /\ data[1].db # level
    /\ foreground = level

\* C20: a capture callback invoked with a null data payload never enqueues an
\* entry: it leaves the channel as it was and raises an AssertionError, after
\* which no entry is added; every entry in the channel, and every entry taken
\* from it, has a payload.
C20_NullNeverEnqueued ==
    /\ hist.null_kept
    /\ hist.nulls > 0 => cb_exc = "AssertionError"
    /\ \A i \in 1 .. Len(audio_queue) : audio_queue[i] # NoData /\ audio_queue[i].db # None
    /\ \A i \in 1 .. Len(data) : data[i] # NoData /\ data[i].db # None

\* the callback was called without data while entries were waiting, and main()
\* went on to take an entry from the channel
C20_Witness ==
    /\ hist.nulls > 0
    /\ cb_exc = "AssertionError"
    /\ audio_queue # <<>>
    /\ hist.wu_done
    /\ pc = "classify"

\* C21: the chunk on which STOPPING is observed is neither appended to the buffer
\* nor written to the sink, and no step that observes STOPPING or follows it
\* changes the sink content or the buffer: the residual buffer is never flushed.
C21_NothingAtStop ==
    [][status' = "STOPPING" =>
          /\ frames' = frames
          /\ buffer' = buffer
          /\ \A i \in 1 .. Len(buffer') : buffer'[i].id # data'[1].id
          /\ \A i \in 1 .. Len(frames') : frames'[i].id # data'[1].id]_vars

\* STOPPING has just been observed, with bytes in the sink and a full buffer
C21_Witness ==
    /\ pc = "close_stream"
    /\ status = "STOPPING"
    /\ frames # <<>>
    /\ BytesLen(buffer) = buffer_size
    /\ out_file = "open"

\* C22: whenever the warm-up discard has returned, at least n_discard entries were
\* removed from the channel, retrieved or cleared, and none of them is ever
\* classified, whatever the channel held when the warm-up was called and whenever
\* the producer put its entries.
C22_DiscardsAtLeast ==
    hist.wu_done =>
        LET removed == hist.wu_got + hist.wu_cleared
        IN  /\ removed >= N_DISCARD
            /\ \A k \in 1 .. Len(hist.classified) : hist.classified[k] > removed
            /\ pc \in {"classify", "record"} => data[1].id > removed

\* the warm-up was called on an empty channel, removed more than n_discard entries
\* and the loop has classified a chunk since
C22_Witness ==
    /\ hist.wu_done
    /\ wu_qsize = 0
    /\ hist.wu_got + hist.wu_cleared > N_DISCARD
    /\ Len(hist.classified) >= 2

\* the payloads, in arrival order, of the chunks processed so far with status GOING
Accepted ==
    LET n == Len(hist.observed)
        going == SelectSeq([k \in 1 .. n |-> k], LAMBDA k : hist.observed[k] = "GOING")
    IN  [j \in 1 .. Len(going) |->
            [id |-> hist.classified[going[j]], off |-> 0, len |-> ChunkBytes]]

\* C23: in every state of the processing loop before STOPPING, the bytes written to
\* the sink followed by the bytes in the buffer are the payloads, in arrival order,
\* of all chunks processed with status GOING, and the sink content is a prefix of
\* them: no accepted byte is lost, duplicated or reordered.
C23_NoByteLost ==
    (pc \in {"loop_get", "classify", "record"} /\ status # "STOPPING") =>
        /\ Normal(frames \o buffer) = Accepted
        /\ Normal(TakeBytes(Accepted, BytesLen(frames))) = frames
        /\ BytesLen(frames) + BytesLen(buffer) = hist.appended

\* the session is going, the sink holds several chunks and the buffer is full
C23_Witness ==
    /\ pc = "loop_get"
    /\ status = "GOING"
    /\ BytesLen(frames) >= 3 * ChunkBytes
    /\ BytesLen(buffer) = buffer_size
    /\ Len(Accepted) * ChunkBytes = BytesLen(frames) + buffer_size

\* C24: STOPPING is observed only after at least MAX_PAUSE_MS / CHUNK_MS + 1 chunks
\* were appended; the buffer then holds exactly buffer_size bytes and at least one
\* whole chunk has been written to the sink, so more was appended than the buffer
\* keeps.
C24_FullBufferAtStop ==
    status = "STOPPING" =>
        /\ hist.appended >= (MAX_PAUSE_MS \div CHUNK_MS + 1) * ChunkBytes
        /\ hist.appended > buffer_size
        /\ BytesLen(buffer) = buffer_size
        /\ BytesLen(frames) >= ChunkBytes
        /\ frames[1].len = ChunkBytes

\* STOPPING observed on the chunk that makes the pause longer than MAX_PAUSE_MS:
\* the chunks from onset to the last speech chunk are in the sink, the
\* MAX_PAUSE_MS / CHUNK_MS chunks of the pause fill the buffer
C24_Witness ==
    /\ status = "STOPPING"
    /\ hist.run = MAX_PAUSE_MS \div CHUNK_MS + 1
    /\ hist.appended = (hist.last_speech - hist.onset_at + 1) * ChunkBytes + buffer_size
    /\ BytesLen(frames) = (hist.last_speech - hist.onset_at + 1) * ChunkBytes
    /\ BytesLen(buffer) = buffer_size

\* C25: the first chunk a fresh classifier processes is decided non-speech whatever
\* its energy: level and background both become that energy, so level is not above
\* background; a fresh recording_status given that decision returns PENDING.
C25_FirstChunkNonSpeech ==
    Len(hist.classified) = 1 =>
        /\ hist.prev.level = None /\ hist.prev.background = None
        /\ ~is_speech /\ ~speaking
        /\ level = data[1].db
        /\ background = data[1].db
        /\ foreground = 0
        /\ recording_status(is_speech, 0, FALSE).status = "PENDING"

\* the first chunk was as loud as a chunk can be
C25_Witness ==
    /\ pc = "unit_classify"
    /\ Len(hist.classified) = 1
    /\ data[1].db = 96 * Scale
    /\ ~is_speech

====
